---- MODULE Spec2Model ----
(***************************************************************************)
(* A model of the taste-learning and feed-ranking core of CityPulseBackend *)
(* (app/dao.py, app/routes/like.py, app/routes/feed.py,                    *)
(* app/utils/ranking.py).                                                  *)
(*                                                                         *)
(* Floating-point numbers are modelled as exact rationals <<num, den>>     *)
(* (den > 0, lowest terms); rounding is not modelled.                      *)
(***************************************************************************)
EXTENDS Integers, Sequences, FiniteSets, TLC

VARIABLES
    users,      \* db.users: the stored user documents, _id -> taste
    clock,      \* datetime.utcnow(), a logical time
    hist,       \* ghost: the vectors handed to update_user_taste so far, per user
    last,       \* ghost: the last DAO call, the profile it found and its outcome
    video_scores,   \* ranking: the candidate list handed to the ranker
    rank_call,      \* ranking: which ranker ran ("none" before the call)
    rank_nows,      \* ranking: what datetime.utcnow() returned for each candidate
    ranked_videos,  \* ranking: the list the ranker returned
    rank_config,    \* ranking: the decay_hours and vector_weight of the call
    rank_error,     \* ranking: the exception the call raised ("" if it returned)
    reranked,       \* ranking: a second call of the ranker, on the same
                    \* candidates in another order, and what it returned
    diversity,      \* ranking: the arguments of apply_diversity_filter and
                    \* the list it returned
    videos,         \* db.videos: the ids of the stored videos
    likes,          \* db.likes: how many like documents each (user, video) has
    likes_unique,   \* whether the unique index user_video_unique was created
    proc,           \* the request each handler is serving and where it stands
    started,        \* ghost: how many requests have been started
    sequential,     \* ghost: no request has started while another was in flight
    ever_liked,     \* ghost: the videos a like document was ever created for, per user
    feed            \* the last GET /feed: what it read and what it answered

daovars == <<users, clock, hist, last>>
rankvars == <<video_scores, rank_call, rank_nows, ranked_videos, rank_config,
              rank_error, reranked, diversity>>
storevars == <<videos, likes_unique>>
reqvars == <<likes, proc, started, sequential, ever_liked>>
vars == <<users, clock, hist, last,
          video_scores, rank_call, rank_nows, ranked_videos, rank_config,
          rank_error, reranked, diversity,
          videos, likes, likes_unique, proc, started, sequential, ever_liked,
          feed>>

----------------------------------------------------------------------------
(* Bounds and input sets *)

MaxVal == 1          \* vector components are 0..MaxVal
MaxUpdates == 3      \* update_user_taste calls per behaviour of SpecTaste

MaxCands == 3        \* candidates in one ranking call
MaxHour == 3         \* created_at is 0..MaxHour, the ranker runs at MaxHour-2..MaxHour

MaxRequests == 3     \* requests started per behaviour of Spec

MaxItems == 4        \* items in the list handed to apply_diversity_filter
MaxSameTags == 3     \* max_same_tags is 0..MaxSameTags

Users == {"u1"}
Procs == {"p1", "p2"}

\* the video documents of the model: v0 has no embedding yet, and v0 and v2
\* were created in the same hour
VideoDoc(id) ==
    CASE id = "v1" -> [id |-> "v1", embedding |-> <<1, 0>>, created_at |-> 0,
                       borough |-> "Manhattan"]
      [] id = "v2" -> [id |-> "v2", embedding |-> <<0, 1>>, created_at |-> 1,
                       borough |-> "Manhattan"]
      [] id = "v0" -> [id |-> "v0", embedding |-> <<>>, created_at |-> 1,
                       borough |-> "Manhattan"]

StoredIds == {"v0", "v1", "v2"}
\* the ids a request may name: "vx" is the id of no stored video
VideoIds == StoredIds \cup {"vx"}

\* the vectors update_user_taste is called with: of length 0, 1 or 2
Dims == {0, 1, 2}
Vectors == UNION {[1..d -> 0..MaxVal] : d \in Dims}

NoCall == [op |-> "none"]

----------------------------------------------------------------------------
(* Rational arithmetic for Python floats *)

Abs(x) == IF x < 0 THEN -x ELSE x

RECURSIVE GCD(_, _)
GCD(a, b) == IF b = 0 THEN a ELSE GCD(b, a % b)

Rat(num, den) ==
    LET g == GCD(Abs(num), den)
    IN  IF num = 0 THEN <<0, 1>> ELSE <<num \div g, den \div g>>

RatOfInt(i) == <<i, 1>>
RatEq(a, b) == a[1] * b[2] = b[1] * a[2]
RatLe(a, b) == a[1] * b[2] <= b[1] * a[2]
RatLt(a, b) == a[1] * b[2] < b[1] * a[2]
RatAdd(a, b) == Rat(a[1] * b[2] + b[1] * a[2], a[2] * b[2])
RatSub(a, b) == Rat(a[1] * b[2] - b[1] * a[2], a[2] * b[2])
RatMul(a, b) == Rat(a[1] * b[1], a[2] * b[2])
RatMax(a, b) == IF RatLt(a, b) THEN b ELSE a
RatMin(a, b) == IF RatLt(b, a) THEN b ELSE a
Zero == <<0, 1>>
One == <<1, 1>>

FloatVec(V) == [i \in 1..Len(V) |-> RatOfInt(V[i])]

Min(a, b) == IF a <= b THEN a ELSE b

----------------------------------------------------------------------------
(* app/models.py: UserTaste, UserDocument *)

UserTaste(embedding, n, updated_at) ==
    [embedding |-> embedding, n |-> n, updated_at |-> updated_at]

EmptyTaste(now) == UserTaste(<<>>, 0, now)

----------------------------------------------------------------------------
(* app/dao.py: UserDAO.update_user_taste, the computation between the read *)
(* of the profile and the write of the new one                             *)

\* a mean that forgets n: (old_val + new_val) / 2
mean_step_halving(old_val, n, new_val) ==
    Rat(old_val[1] * new_val[2] + new_val[1] * old_val[2],
        old_val[2] * new_val[2] * 2)

\* (old_val * n + new_val) / (n + 1)
mean_step(old_val, n, new_val) ==
    Rat(old_val[1] * n * new_val[2] + new_val[1] * old_val[2],
        old_val[2] * new_val[2] * (n + 1))

\* [... for old_val, new_val in zip(old_embedding, video_embedding)]:
\* zip stops at the shorter of the two lists
running_mean(old_embedding, n, video_embedding) ==
    [i \in 1..Min(Len(old_embedding), Len(video_embedding)) |->
        mean_step(old_embedding[i], n, video_embedding[i])]

updated_taste(taste, video_embedding, now) ==
    IF taste.n = 0
      THEN UserTaste(video_embedding, 1, now)
      ELSE UserTaste(running_mean(taste.embedding, taste.n, video_embedding),
                     taste.n + 1, now)

----------------------------------------------------------------------------
(* The parts of the state a specification leaves alone *)

NoResponse == [status |-> 0, message |-> ""]

IdleProc ==
    [pc |-> "idle", op |-> "none", user |-> "", video_id |-> "",
     embedding |-> <<>>, taste |-> EmptyTaste(0), resp |-> NoResponse,
     pre_users |-> <<>>, pre_liked |-> FALSE, created_like |-> FALSE]

NoFeed == [mode |-> "none"]

\* ranking.py:58-59: decay_hours = 24.0, vector_weight = 0.65
DefaultDecayHours == 24
DefaultVectorWeight == <<13, 20>>
DefaultConfig == [decay_hours |-> DefaultDecayHours,
                  vector_weight |-> DefaultVectorWeight]

NoRerank == [order |-> <<>>, ranked_videos |-> <<>>]

NoDiversity == [ranked_videos |-> <<>>, max_same_tags |-> 0, called |-> FALSE,
                filtered_videos |-> <<>>]

RankIdle ==
    /\ video_scores = <<>>
    /\ rank_call = "none"
    /\ rank_nows = <<>>
    /\ ranked_videos = <<>>
    /\ rank_config = DefaultConfig
    /\ rank_error = ""
    /\ reranked = NoRerank
    /\ diversity = NoDiversity

RequestsIdle ==
    /\ likes = [u \in Users, v \in StoredIds |-> 0]
    /\ proc = [p \in Procs |-> IdleProc]
    /\ started = 0
    /\ sequential = TRUE
    /\ ever_liked = [u \in Users |-> {}]

StoreFull == videos = StoredIds

----------------------------------------------------------------------------
(* The DAO called directly, one call at a time *)

\* collection.find_one({"_id": user_id}) found a document
found(u) == u \in DOMAIN users

\* collection.insert_one / update_one $set of the taste of user u
put_taste(u, taste) ==
    [x \in DOMAIN users \cup {u} |-> IF x = u THEN taste ELSE users[x]]

\* UserDAO.get_user: the stored profile, or a new, empty one
found_or_new(u, now) == IF found(u) THEN users[u] ELSE EmptyTaste(now)

get_user(u) ==
    /\ users' = put_taste(u, found_or_new(u, clock))
    /\ clock' = IF found(u) THEN clock ELSE clock + 1
    /\ last' = [op |-> "get_user", user |-> u, pre |-> found_or_new(u, clock),
                vector |-> <<>>, result |-> "ok"]
    /\ UNCHANGED <<hist, rankvars, storevars, reqvars, feed>>

\* UserDAO.update_user_taste: get_user, the new mean, update_one
update_user_taste(u, V) ==
    /\ Len(hist[u]) < MaxUpdates
    /\ LET now0 == clock
           now1 == IF found(u) THEN clock ELSE clock + 1
           user == found_or_new(u, now0)
       IN  /\ users' = put_taste(u, updated_taste(user, FloatVec(V), now1))
           /\ clock' = now1 + 1
           /\ last' = [op |-> "update_user_taste", user |-> u, pre |-> user,
                       vector |-> V, result |-> "ok"]
    /\ hist' = [hist EXCEPT ![u] = Append(@, V)]
    /\ UNCHANGED <<rankvars, storevars, reqvars, feed>>

TasteInit ==
    /\ users = <<>>
    /\ clock = 0
    /\ hist = [u \in Users |-> <<>>]
    /\ last = NoCall
    /\ RankIdle
    /\ StoreFull
    /\ likes_unique = TRUE
    /\ RequestsIdle
    /\ feed = NoFeed

TasteNext ==
    \/ \E u \in Users : get_user(u)
    \/ \E u \in Users, V \in Vectors : update_user_taste(u, V)

SpecTaste == TasteInit /\ [][TasteNext]_vars

----------------------------------------------------------------------------
(* app/routes/like.py: the handlers, one action per await *)

\* what no request handler touches
quiet == <<hist, last, rankvars, storevars, feed>>

InFlight(p) == proc[p].pc \notin {"idle", "done"}

\* find_one on db.likes: the number of documents of the pair
LikeCount(u, v) == IF v \in StoredIds THEN likes[u, v] ELSE 0

\* the handler returns, or raises an HTTPException
Respond(p, status, message) ==
    [proc[p] EXCEPT !.pc = "done",
                    !.resp = [status |-> status, message |-> message]]

\* a request arrives at handler p
StartRequest(p, op, u, v, first_pc) ==
    /\ ~InFlight(p)
    /\ started < MaxRequests
    /\ started' = started + 1
    /\ sequential' = (sequential /\ \A q \in Procs \ {p} : ~InFlight(q))
    /\ proc' = [proc EXCEPT ![p] =
                  [IdleProc EXCEPT !.pc = first_pc, !.op = op, !.user = u,
                                   !.video_id = v, !.pre_users = users,
                                   !.pre_liked = (LikeCount(u, v) > 0)]]
    /\ UNCHANGED <<users, clock, likes, ever_liked, quiet>>

StartLike(p, u, v) == StartRequest(p, "like", u, v, "get_video")
StartUnlike(p, u, v) == StartRequest(p, "unlike", u, v, "unlike_has_liked")
StartTaste(p, u) == StartRequest(p, "taste", u, "", "get_user")

\* step 1 making sure of the user's document before it looks at the video
like_get_video_after_user(p) ==
    /\ proc[p].pc = "get_video"
    /\ proc' = [proc EXCEPT ![p] =
                  IF proc[p].video_id \in videos
                    THEN [proc[p] EXCEPT
                            !.pc = "has_liked",
                            !.embedding = FloatVec(VideoDoc(proc[p].video_id).embedding)]
                    ELSE Respond(p, 404, "video_not_found")]
    /\ users' = IF found(proc[p].user) THEN users
                ELSE put_taste(proc[p].user, EmptyTaste(clock))
    /\ UNCHANGED <<clock, likes, started, sequential, ever_liked, quiet>>

\* like_video step 1: db_ops.videos.get_video; an id that resolves to no
\* document (or is no ObjectId) gives None and the 404
like_get_video(p) ==
    /\ proc[p].pc = "get_video"
    /\ proc' = [proc EXCEPT ![p] =
                  IF proc[p].video_id \in videos
                    THEN [proc[p] EXCEPT
                            !.pc = "has_liked",
                            !.embedding = FloatVec(VideoDoc(proc[p].video_id).embedding)]
                    ELSE Respond(p, 404, "video_not_found")]
    /\ UNCHANGED <<users, clock, likes, started, sequential, ever_liked, quiet>>

\* step 2 left out: the ledger is not consulted
like_without_ledger_check(p) ==
    /\ proc[p].pc = "has_liked"
    /\ proc' = [proc EXCEPT ![p].pc = "create_like"]
    /\ UNCHANGED <<users, clock, likes, started, sequential, ever_liked, quiet>>

\* like_video step 2: db_ops.likes.user_has_liked
like_user_has_liked(p) ==
    /\ proc[p].pc = "has_liked"
    /\ proc' = [proc EXCEPT ![p] =
                  IF LikeCount(proc[p].user, proc[p].video_id) > 0
                    THEN Respond(p, 200, "Video already liked")
                    ELSE [proc[p] EXCEPT !.pc = "create_like"]]
    /\ UNCHANGED <<users, clock, likes, started, sequential, ever_liked, quiet>>

\* step 4 without its test: the taste update whatever the embedding
after_create_like_always_updates(p) ==
    [proc[p] EXCEPT !.pc = "get_user"]

\* like_video after create_like returned: step 4 if the video has an
\* embedding, else the success response
after_create_like(p) ==
    IF proc[p].embedding # <<>>
      THEN [proc[p] EXCEPT !.pc = "get_user"]
      ELSE Respond(p, 200, "Video liked successfully")

\* LikeDAO.create_like: find_one
create_like_find(p) ==
    /\ proc[p].pc = "create_like"
    /\ proc' = [proc EXCEPT ![p] =
                  IF LikeCount(proc[p].user, proc[p].video_id) > 0
                    THEN after_create_like(p)
                    ELSE [proc[p] EXCEPT !.pc = "insert_like"]]
    /\ UNCHANGED <<users, clock, likes, started, sequential, ever_liked, quiet>>

\* LikeDAO.create_like: insert_one; with the unique index a second document
\* of the pair is a DuplicateKeyError, which the handler turns into a 500
create_like_insert(p) ==
    /\ proc[p].pc = "insert_like"
    /\ LET u == proc[p].user
           v == proc[p].video_id
       IN  IF likes_unique /\ LikeCount(u, v) > 0
             THEN /\ proc' = [proc EXCEPT ![p] =
                                Respond(p, 500, "Failed to process like. Please try again.")]
                  /\ UNCHANGED <<likes, ever_liked>>
             ELSE /\ likes' = [likes EXCEPT ![u, v] = @ + 1]
                  /\ ever_liked' = [ever_liked EXCEPT ![u] = @ \cup {v}]
                  /\ proc' = [proc EXCEPT ![p] =
                                [after_create_like(p) EXCEPT !.created_like = TRUE]]
    /\ UNCHANGED <<users, clock, started, sequential, quiet>>

\* what the caller of get_user does with the profile it got: the taste
\* endpoint answers; update_user_taste builds the new taste (reading the
\* clock) and goes on to update_one
after_get_user(p, taste) ==
    IF proc[p].op = "taste"
      THEN [Respond(p, 200, "taste") EXCEPT !.taste = taste]
      ELSE [proc[p] EXCEPT !.pc = "update_one",
                           !.taste = updated_taste(taste, proc[p].embedding, clock)]

\* UserDAO.get_user: find_one; if there is no document the new, empty
\* profile is built (reading the clock)
get_user_find(p) ==
    /\ proc[p].pc = "get_user"
    /\ IF found(proc[p].user)
         THEN /\ proc' = [proc EXCEPT ![p] = after_get_user(p, users[proc[p].user])]
              /\ clock' = IF proc[p].op = "taste" THEN clock ELSE clock + 1
         ELSE /\ proc' = [proc EXCEPT ![p].pc = "insert_user",
                                      ![p].taste = EmptyTaste(clock)]
              /\ clock' = clock + 1
    /\ UNCHANGED <<users, likes, started, sequential, ever_liked, quiet>>

\* UserDAO.get_user: insert_one; _id is unique, so if the document was
\* inserted meanwhile this is a DuplicateKeyError and a 500
get_user_insert(p) ==
    /\ proc[p].pc = "insert_user"
    /\ IF found(proc[p].user)
         THEN /\ proc' = [proc EXCEPT ![p] =
                            Respond(p, 500, IF proc[p].op = "taste"
                                              THEN "Failed to retrieve taste profile"
                                              ELSE "Failed to process like. Please try again.")]
              /\ UNCHANGED <<users, clock>>
         ELSE /\ users' = put_taste(proc[p].user, proc[p].taste)
              /\ proc' = [proc EXCEPT ![p] = after_get_user(p, proc[p].taste)]
              /\ clock' = IF proc[p].op = "taste" THEN clock ELSE clock + 1
    /\ UNCHANGED <<likes, started, sequential, ever_liked, quiet>>

\* UserDAO.update_user_taste: update_one with $set of the taste computed
\* from the profile that get_user returned; then like_video answers
taste_update_one(p) ==
    /\ proc[p].pc = "update_one"
    /\ users' = IF found(proc[p].user)
                  THEN put_taste(proc[p].user, proc[p].taste)
                  ELSE users
    /\ proc' = [proc EXCEPT ![p] = Respond(p, 200, "Video liked successfully")]
    /\ UNCHANGED <<clock, likes, started, sequential, ever_liked, quiet>>

\* unlike_video: db_ops.likes.user_has_liked
unlike_user_has_liked(p) ==
    /\ proc[p].pc = "unlike_has_liked"
    /\ proc' = [proc EXCEPT ![p] =
                  IF LikeCount(proc[p].user, proc[p].video_id) > 0
                    THEN [proc[p] EXCEPT !.pc = "delete_one"]
                    ELSE Respond(p, 200, "Video was not liked")]
    /\ UNCHANGED <<users, clock, likes, started, sequential, ever_liked, quiet>>

\* an unlike that also takes the like back out of the count
unlike_delete_and_decrement(p) ==
    /\ proc[p].pc = "delete_one"
    /\ likes' = [likes EXCEPT ![proc[p].user, proc[p].video_id] =
                                IF @ > 0 THEN @ - 1 ELSE 0]
    /\ users' = IF found(proc[p].user) /\ users[proc[p].user].n > 0
                  THEN put_taste(proc[p].user,
                                 [users[proc[p].user] EXCEPT !.n = @ - 1])
                  ELSE users
    /\ proc' = [proc EXCEPT ![p] = Respond(p, 200, "Video unliked successfully")]
    /\ UNCHANGED <<clock, started, sequential, ever_liked, quiet>>

\* unlike_video: db.likes.delete_one removes one document of the pair, if
\* there still is one
unlike_delete_one(p) ==
    /\ proc[p].pc = "delete_one"
    /\ likes' = [likes EXCEPT ![proc[p].user, proc[p].video_id] =
                                IF @ > 0 THEN @ - 1 ELSE 0]
    /\ proc' = [proc EXCEPT ![p] = Respond(p, 200, "Video unliked successfully")]
    /\ UNCHANGED <<users, clock, started, sequential, ever_liked, quiet>>

Init ==
    /\ users = <<>>
    /\ clock = 0
    /\ hist = [u \in Users |-> <<>>]
    /\ last = NoCall
    /\ RankIdle
    /\ StoreFull
    /\ likes_unique \in BOOLEAN
    /\ RequestsIdle
    /\ feed = NoFeed

Step(p) ==
    \/ \E u \in Users, v \in VideoIds : StartLike(p, u, v)
    \/ \E u \in Users, v \in VideoIds : StartUnlike(p, u, v)
    \/ \E u \in Users : StartTaste(p, u)
    \/ like_get_video(p)
    \/ like_user_has_liked(p)
    \/ create_like_find(p)
    \/ create_like_insert(p)
    \/ get_user_find(p)
    \/ get_user_insert(p)
    \/ taste_update_one(p)
    \/ unlike_user_has_liked(p)
    \/ unlike_delete_one(p)

Next == \E p \in Procs : Step(p)

Spec == Init /\ [][Next]_vars

----------------------------------------------------------------------------
(* app/utils/ranking.py *)

\* math.exp(x) for a rational x, by the second-order approximation
\* 1 + x + x^2/2 for x >= 0 and its reciprocal for x < 0: strictly
\* increasing, positive, exp(0) = 1.
exp(x) ==
    LET a == Abs(x[1])
        q == x[2]
        num == 2 * q * q + 2 * a * q + a * a
        den == 2 * q * q
    IN  IF x[1] >= 0 THEN Rat(num, den) ELSE Rat(den, num)

\* math.exp raises OverflowError ("math range error") when the result
\* exceeds the largest double, that is for x above 709.78
ExpOverflow == Rat(70978, 100)
exp_raises(x) == RatLt(ExpOverflow, x)

\* -hours_since / decay_hours, with hours_since = (now - created_at) / 3600.0
\* and the time in hours; decay_hours is not 0 (a division by zero raises)
decay_exponent(created_at, decay_hours, now) ==
    LET hours_since == now - created_at
    IN  Rat(-hours_since * (IF decay_hours < 0 THEN -1 ELSE 1), Abs(decay_hours))

\* whether calculate_time_decay raises instead of returning: the division
\* by a decay_hours of 0 raises ZeroDivisionError, math.exp may overflow
time_decay_raises(created_at, decay_hours, now) ==
    \/ decay_hours = 0
    \/ exp_raises(decay_exponent(created_at, decay_hours, now))

\* the exception calculate_time_decay raises, "" if it returns
time_decay_error(created_at, decay_hours, now) ==
    IF decay_hours = 0 THEN "ZeroDivisionError"
    ELSE IF exp_raises(decay_exponent(created_at, decay_hours, now))
           THEN "OverflowError"
           ELSE ""

calculate_time_decay(created_at, decay_hours, now) ==
    LET decay_factor == exp(decay_exponent(created_at, decay_hours, now))
    IN  RatMax(Zero, RatMin(One, decay_factor))

normalize_vector_score(score) == RatMax(Zero, RatMin(One, score))

calculate_final_score(vector_score, time_decay, vector_weight, time_weight) ==
    RatAdd(RatMul(vector_weight, vector_score), RatMul(time_weight, time_decay))

\* the key of list.sort: x[1]["final_score"]
final_score_of(x) == x.scores.final_score

\* where an item goes into a list sorted by descending key, as a sort that
\* puts it before the items of equal key does
insert_before_ties(sorted, x) ==
    LET p == Cardinality({i \in 1..Len(sorted) :
                            RatLt(final_score_of(x), final_score_of(sorted[i]))})
    IN  SubSeq(sorted, 1, p) \o <<x>> \o SubSeq(sorted, p + 1, Len(sorted))

\* the same with reverse=True left out: ascending keys
insert_ascending(sorted, x) ==
    LET p == Cardinality({i \in 1..Len(sorted) :
                            RatLe(final_score_of(sorted[i]), final_score_of(x))})
    IN  SubSeq(sorted, 1, p) \o <<x>> \o SubSeq(sorted, p + 1, Len(sorted))

\* list.sort(key=..., reverse=True) is a stable sort by descending key: an
\* item goes after every item already placed whose key is >= its key
insert_sorted(sorted, x) ==
    LET p == Cardinality({i \in 1..Len(sorted) :
                            RatLe(final_score_of(x), final_score_of(sorted[i]))})
    IN  SubSeq(sorted, 1, p) \o <<x>> \o SubSeq(sorted, p + 1, Len(sorted))

RECURSIVE sort_by_final_score(_)
sort_by_final_score(list) ==
    IF list = <<>> THEN <<>>
    ELSE insert_sorted(sort_by_final_score(SubSeq(list, 1, Len(list) - 1)),
                       list[Len(list)])

\* the loop body with the fourth argument of calculate_final_score left
\* out: time_weight takes its default 0.35
personalized_item_fixed_time_weight(video, vector_score, decay_hours, vector_weight, now) ==
    LET normalized_vector_score == normalize_vector_score(vector_score)
        time_decay == calculate_time_decay(video.created_at, decay_hours, now)
        final_score == calculate_final_score(normalized_vector_score, time_decay,
                                             vector_weight, <<7, 20>>)
    IN  [video |-> video,
         scores |-> [vector_score |-> normalized_vector_score,
                     time_decay |-> time_decay,
                     final_score |-> final_score,
                     vector_weight |-> vector_weight,
                     time_weight |-> RatSub(One, vector_weight)]]

\* the loop body reporting and using the default time_weight 0.35
personalized_item_default_time_weight(video, vector_score, decay_hours, vector_weight, now) ==
    LET normalized_vector_score == normalize_vector_score(vector_score)
        time_decay == calculate_time_decay(video.created_at, decay_hours, now)
        final_score == calculate_final_score(normalized_vector_score, time_decay,
                                             vector_weight, <<7, 20>>)
    IN  [video |-> video,
         scores |-> [vector_score |-> normalized_vector_score,
                     time_decay |-> time_decay,
                     final_score |-> final_score,
                     vector_weight |-> vector_weight,
                     time_weight |-> <<7, 20>>]]

\* the loop body of rank_videos_personalized; now is what utcnow() returns
\* inside calculate_time_decay for this candidate
personalized_item(video, vector_score, decay_hours, vector_weight, now) ==
    LET normalized_vector_score == normalize_vector_score(vector_score)
        time_decay == calculate_time_decay(video.created_at, decay_hours, now)
        final_score == calculate_final_score(normalized_vector_score, time_decay,
                                             vector_weight, RatSub(One, vector_weight))
    IN  [video |-> video,
         scores |-> [vector_score |-> normalized_vector_score,
                     time_decay |-> time_decay,
                     final_score |-> final_score,
                     vector_weight |-> vector_weight,
                     time_weight |-> RatSub(One, vector_weight)]]

rank_videos_personalized(scored, decay_hours, vector_weight, nows) ==
    sort_by_final_score(
        [i \in 1..Len(scored) |->
            personalized_item(scored[i].video, scored[i].score,
                              decay_hours, vector_weight, nows[i])])

\* the loop body scoring with the default weights of calculate_final_score
recency_item_weighted(video, decay_hours, now) ==
    LET time_decay == calculate_time_decay(video.created_at, decay_hours, now)
    IN  [video |-> video,
         scores |-> [vector_score |-> Zero,
                     time_decay |-> time_decay,
                     final_score |-> calculate_final_score(Zero, time_decay,
                                         DefaultVectorWeight, <<7, 20>>),
                     vector_weight |-> Zero,
                     time_weight |-> One]]

\* the loop body of rank_videos_recency
recency_item(video, decay_hours, now) ==
    LET time_decay == calculate_time_decay(video.created_at, decay_hours, now)
    IN  [video |-> video,
         scores |-> [vector_score |-> Zero,
                     time_decay |-> time_decay,
                     final_score |-> time_decay,
                     vector_weight |-> Zero,
                     time_weight |-> One]]

\* the ranker returning a list that holds a null entry when it is handed no
\* videos
rank_videos_recency_null_entry(video_list, decay_hours, nows) ==
    IF video_list = <<>>
      THEN <<recency_item([id |-> 0, created_at |-> 0], decay_hours, 0)>>
      ELSE sort_by_final_score(
               [i \in 1..Len(video_list) |->
                   recency_item(video_list[i], decay_hours, nows[i])])

rank_videos_recency(video_list, decay_hours, nows) ==
    sort_by_final_score(
        [i \in 1..Len(video_list) |->
            recency_item(video_list[i], decay_hours, nows[i])])

\* set(video.tags)
TagSet(tags) == {tags[i] : i \in DOMAIN tags}

MaxOf(S) == CHOOSE x \in S : \A y \in S : y <= x

\* tag_counts.get(tag, 0): tag_counts is a function on the tags counted so far
count_of(tag_counts, tag) == IF tag \in DOMAIN tag_counts THEN tag_counts[tag] ELSE 0

\* the loop admitting a video whose tags have reached the limit
RECURSIVE diversity_loop_admits_at_limit(_, _, _, _)
diversity_loop_admits_at_limit(rest, max_same_tags, tag_counts, filtered_videos) ==
    IF rest = <<>> THEN filtered_videos
    ELSE
        LET video_tags == TagSet(Head(rest).video.tags)
            max_tag_count ==
                IF video_tags = {} THEN 0
                ELSE MaxOf({count_of(tag_counts, tag) : tag \in video_tags})
        IN  IF max_tag_count <= max_same_tags
              THEN diversity_loop_admits_at_limit(
                       Tail(rest), max_same_tags,
                       [tag \in DOMAIN tag_counts \cup video_tags |->
                           IF tag \in video_tags THEN count_of(tag_counts, tag) + 1
                           ELSE tag_counts[tag]],
                       Append(filtered_videos, Head(rest)))
              ELSE diversity_loop_admits_at_limit(
                       Tail(rest), max_same_tags, tag_counts, filtered_videos)

\* the loop putting an admitted video in front of the list
RECURSIVE diversity_loop_prepends(_, _, _, _)
diversity_loop_prepends(rest, max_same_tags, tag_counts, filtered_videos) ==
    IF rest = <<>> THEN filtered_videos
    ELSE
        LET video_tags == TagSet(Head(rest).video.tags)
            max_tag_count ==
                IF video_tags = {} THEN 0
                ELSE MaxOf({count_of(tag_counts, tag) : tag \in video_tags})
        IN  IF max_tag_count < max_same_tags
              THEN diversity_loop_prepends(
                       Tail(rest), max_same_tags,
                       [tag \in DOMAIN tag_counts \cup video_tags |->
                           IF tag \in video_tags THEN count_of(tag_counts, tag) + 1
                           ELSE tag_counts[tag]],
                       <<Head(rest)>> \o filtered_videos)
              ELSE diversity_loop_prepends(
                       Tail(rest), max_same_tags, tag_counts, filtered_videos)

\* the loop of apply_diversity_filter over the videos not yet looked at:
\* max(..., default=0) is 0 for a video without tags
RECURSIVE diversity_loop(_, _, _, _)
diversity_loop(rest, max_same_tags, tag_counts, filtered_videos) ==
    IF rest = <<>> THEN filtered_videos
    ELSE
        LET video_tags == TagSet(Head(rest).video.tags)
            max_tag_count ==
                IF video_tags = {} THEN 0
                ELSE MaxOf({count_of(tag_counts, tag) : tag \in video_tags})
        IN  IF max_tag_count < max_same_tags
              THEN diversity_loop(
                       Tail(rest), max_same_tags,
                       [tag \in DOMAIN tag_counts \cup video_tags |->
                           IF tag \in video_tags THEN count_of(tag_counts, tag) + 1
                           ELSE tag_counts[tag]],
                       Append(filtered_videos, Head(rest)))
              ELSE diversity_loop(Tail(rest), max_same_tags, tag_counts, filtered_videos)

apply_diversity_filter(ranked, max_same_tags) ==
    IF Len(ranked) <= max_same_tags THEN ranked
    ELSE diversity_loop(ranked, max_same_tags, <<>>, <<>>)

----------------------------------------------------------------------------
(* The rankers called on every candidate list within the bounds *)

\* raw similarity scores, some outside [0, 1]
RawScores == {<<-1, 2>>, <<1, 2>>, <<3, 2>>}

\* the half-lives and weights a ranking call is configured with: positive
\* half-lives, weights in [0, 1]
DecayHours == {12, DefaultDecayHours}
VectorWeights == {Zero, DefaultVectorWeight, One}

\* the creation times of the candidates: the hours 0..MaxHour, of which
\* MaxHour may lie an hour ahead of the clock, and one a thousand default
\* half-lives ahead
FarFuture == 1000 * DefaultDecayHours
CreatedAts == 0..MaxHour \cup {FarFuture}

\* the candidate at position i has id i, the creation hour c[i] and the raw
\* similarity score r[i]
CandidateList(c, r) ==
    [i \in DOMAIN c |-> [video |-> [id |-> i, created_at |-> c[i]],
                          score |-> r[i]]]

\* the clock read once per candidate, inside calculate_time_decay: it never
\* runs backwards, and it may advance between two reads
ClockReads(len) ==
    {t \in [1..len -> (MaxHour - 2)..MaxHour] :
        \A i \in 1..len, j \in 1..len : i < j => t[i] <= t[j]}

videos_of(scored) == [i \in 1..Len(scored) |-> scored[i].video]

\* whether the loop of a ranker raises at some candidate: both rankers call
\* calculate_time_decay on every candidate
ranking_raises(video_list, decay_hours, nows) ==
    \E i \in 1..Len(video_list) :
        time_decay_raises(video_list[i].created_at, decay_hours, nows[i])

\* the exception that ends the loop: that of the first candidate for which
\* calculate_time_decay raises; "" if the ranker returns
ranking_error(video_list, decay_hours, nows) ==
    IF ~ranking_raises(video_list, decay_hours, nows) THEN ""
    ELSE LET first == CHOOSE i \in 1..Len(video_list) :
                        /\ time_decay_raises(video_list[i].created_at, decay_hours, nows[i])
                        /\ \A j \in 1..(i - 1) :
                             ~time_decay_raises(video_list[j].created_at, decay_hours,
                                                nows[j])
         IN  time_decay_error(video_list[first].created_at, decay_hours, nows[first])

RankPersonalized ==
    /\ rank_call = "none"
    /\ \E nows \in ClockReads(Len(video_scores)) :
         /\ rank_nows' = nows
         /\ IF ranking_raises(videos_of(video_scores), rank_config.decay_hours, nows)
              THEN /\ rank_error' = ranking_error(videos_of(video_scores),
                                                   rank_config.decay_hours, nows)
                   /\ ranked_videos' = <<>>
              ELSE /\ rank_error' = ""
                   /\ ranked_videos' = rank_videos_personalized(
                          video_scores, rank_config.decay_hours,
                          rank_config.vector_weight, nows)
    /\ rank_call' = "personalized"
    /\ UNCHANGED <<video_scores, rank_config, reranked, diversity, daovars,
                   storevars, reqvars, feed>>

RankRecency ==
    /\ rank_call = "none"
    /\ \E nows \in ClockReads(Len(video_scores)) :
         /\ rank_nows' = nows
         /\ IF ranking_raises(videos_of(video_scores), rank_config.decay_hours, nows)
              THEN /\ rank_error' = ranking_error(videos_of(video_scores),
                                                   rank_config.decay_hours, nows)
                   /\ ranked_videos' = <<>>
              ELSE /\ rank_error' = ""
                   /\ ranked_videos' = rank_videos_recency(
                          videos_of(video_scores), rank_config.decay_hours, nows)
    /\ rank_call' = "recency"
    /\ UNCHANGED <<video_scores, rank_config, reranked, diversity, daovars,
                   storevars, reqvars, feed>>

RankInit ==
    /\ users = <<>>
    /\ clock = 0
    /\ hist = [u \in Users |-> <<>>]
    /\ last = NoCall
    /\ \E len \in 0..MaxCands :
         \E c \in [1..len -> CreatedAts], r \in [1..len -> RawScores] :
            video_scores = CandidateList(c, r)
    /\ rank_call = "none"
    /\ rank_nows = <<>>
    /\ ranked_videos = <<>>
    /\ rank_config \in [decay_hours : DecayHours, vector_weight : VectorWeights]
    /\ rank_error = ""
    /\ reranked = NoRerank
    /\ diversity = NoDiversity
    /\ StoreFull
    /\ likes_unique = TRUE
    /\ RequestsIdle
    /\ feed = NoFeed

RankNext == RankPersonalized \/ RankRecency

\* the rankers called with every configuration, the invalid ones included:
\* a half-life that is negative, zero or positive, a weight below, inside
\* and above [0, 1]
AnyDecayHours == {-DefaultDecayHours, 0, DefaultDecayHours}
AnyVectorWeights == {<<-1, 2>>, DefaultVectorWeight, <<3, 2>>}

ConfigInit ==
    /\ users = <<>>
    /\ clock = 0
    /\ hist = [u \in Users |-> <<>>]
    /\ last = NoCall
    /\ \E len \in 0..MaxCands :
         \E c \in [1..len -> 0..MaxHour], r \in [1..len -> RawScores] :
            video_scores = CandidateList(c, r)
    /\ rank_call = "none"
    /\ rank_nows = <<>>
    /\ ranked_videos = <<>>
    /\ rank_config \in [decay_hours : AnyDecayHours, vector_weight : AnyVectorWeights]
    /\ rank_error = ""
    /\ reranked = NoRerank
    /\ diversity = NoDiversity
    /\ StoreFull
    /\ likes_unique = TRUE
    /\ RequestsIdle
    /\ feed = NoFeed

SpecConfig == ConfigInit /\ [][RankNext]_vars

SpecRank == RankInit /\ [][RankNext]_vars

----------------------------------------------------------------------------
(* The same ranker called again on the same candidates in another order *)

\* the orders of n candidates: order[k] is the candidate put at position k
Orders(n) ==
    {f \in [1..n -> 1..n] : \A i \in 1..n, j \in 1..n : f[i] = f[j] => i = j}

permuted(list, order) == [k \in DOMAIN list |-> list[order[k]]]

\* the ranker that ran, with the same configuration and the same clock (the
\* k-th read of the clock returns what it returned in the first call), on a
\* permutation of the candidate list
RankPermuted ==
    /\ rank_call # "none"
    /\ rank_error = ""
    /\ reranked = NoRerank
    /\ \E order \in Orders(Len(video_scores)) :
         reranked' =
            [order |-> order,
             ranked_videos |->
                IF rank_call = "personalized"
                  THEN rank_videos_personalized(
                           permuted(video_scores, order), rank_config.decay_hours,
                           rank_config.vector_weight, rank_nows)
                  ELSE rank_videos_recency(
                           videos_of(permuted(video_scores, order)),
                           rank_config.decay_hours, rank_nows)]
    /\ UNCHANGED <<video_scores, rank_call, rank_nows, ranked_videos, rank_config,
                   rank_error, diversity, daovars, storevars, reqvars, feed>>

PermutedInit == RankInit /\ rank_config = DefaultConfig

PermutedNext == RankPersonalized \/ RankRecency \/ RankPermuted

SpecPermuted == PermutedInit /\ [][PermutedNext]_vars

----------------------------------------------------------------------------
(* apply_diversity_filter called on every ranked list within the bounds *)

Tags == {"brooklyn", "food"}

\* video.tags is a list: a tag may be listed twice
TagLists == {<<>>} \cup {<<t>> : t \in Tags} \cup {<<t, u>> : t \in Tags, u \in Tags}

\* a ranked list: the item at position i has id i, the tags tags[i] and the
\* final_score 1/i
RankedList(tags) ==
    [i \in DOMAIN tags |-> [video |-> [id |-> i, tags |-> tags[i]],
                             scores |-> [final_score |-> Rat(1, i)]]]

ApplyDiversityFilter ==
    /\ ~diversity.called
    /\ diversity' = [diversity EXCEPT
                        !.called = TRUE,
                        !.filtered_videos = apply_diversity_filter(
                            diversity.ranked_videos, diversity.max_same_tags)]
    /\ UNCHANGED <<video_scores, rank_call, rank_nows, ranked_videos, rank_config,
                   rank_error, reranked, daovars, storevars, reqvars, feed>>

DiversityInit ==
    /\ users = <<>>
    /\ clock = 0
    /\ hist = [u \in Users |-> <<>>]
    /\ last = NoCall
    /\ video_scores = <<>>
    /\ rank_call = "none"
    /\ rank_nows = <<>>
    /\ ranked_videos = <<>>
    /\ rank_config = DefaultConfig
    /\ rank_error = ""
    /\ reranked = NoRerank
    /\ \E len \in 0..MaxItems, limit \in 0..MaxSameTags :
         \E tags \in [1..len -> TagLists] :
            diversity = [ranked_videos |-> RankedList(tags), max_same_tags |-> limit,
                         called |-> FALSE, filtered_videos |-> <<>>]
    /\ StoreFull
    /\ likes_unique = TRUE
    /\ RequestsIdle
    /\ feed = NoFeed

DiversityNext == ApplyDiversityFilter

SpecDiversity == DiversityInit /\ [][DiversityNext]_vars

----------------------------------------------------------------------------
(* app/dao.py: VideoDAO, and app/routes/feed.py: GET /feed *)

Boroughs == {"Manhattan", "Brooklyn"}
Limits == {1, 2}
Skips == {0, 1}
SinceHours == {1, 48}
SearchScores == {<<1, 2>>, <<3, 2>>}

\* what the rankers see of a stored video
Candidate(id) == [id |-> id, created_at |-> VideoDoc(id).created_at]

\* list[skip:skip + limit]
Slice(list, skip, limit) == SubSeq(list, skip + 1, Min(Len(list), skip + limit))

\* the filter of find / $vectorSearch: borough and created_at >= since_time
InWindow(borough, since_hours, now) ==
    {id \in videos : /\ VideoDoc(id).borough = borough
                     /\ VideoDoc(id).created_at >= now - since_hours}

Injective(s) == \A i \in DOMAIN s, j \in DOMAIN s : s[i] = s[j] => i = j

\* sort("created_at", DESCENDING): documents of equal created_at come in an
\* order MongoDB does not fix
RecencyOrders(ids) ==
    {s \in [1..Cardinality(ids) -> ids] :
        /\ Injective(s)
        /\ \A i \in DOMAIN s, j \in DOMAIN s :
             i < j => VideoDoc(s[i]).created_at >= VideoDoc(s[j]).created_at}

\* VideoDAO.get_feed_videos: the lists the query may return
get_feed_videos(borough, limit, skip, since_hours, now) ==
    {[i \in DOMAIN Slice(s, skip, limit) |-> Candidate(Slice(s, skip, limit)[i])] :
        s \in RecencyOrders(InWindow(borough, since_hours, now))}

\* VideoDAO.vector_search: the lists it may return: at most limit stored
\* videos of the borough and window that have an embedding, each with the
\* score Atlas gives it; or, if the aggregation raises, the recency list
\* with the mock score 0.5
vector_search(borough, limit, since_hours, now) ==
    LET eligible == {id \in InWindow(borough, since_hours, now) :
                        VideoDoc(id).embedding # <<>>}
        found_by_atlas ==
            UNION {{[i \in 1..len |-> [video |-> Candidate(s[i]), score |-> r[i]]] :
                        s \in {t \in [1..len -> eligible] : Injective(t)},
                        r \in [1..len -> SearchScores]} :
                   len \in 0..Min(limit, Cardinality(eligible))}
        fallback ==
            {[i \in DOMAIN l |-> [video |-> l[i], score |-> <<1, 2>>]] :
                l \in get_feed_videos(borough, limit, 0, since_hours, now)}
    IN  found_by_atlas \cup fallback

\* app/models.py: the fields of a VideoDocument (extra keys of a stored
\* document are ignored by the model class)
VideoDocumentFields ==
    {"id", "user_id", "borough", "borough_source", "s3_key", "media_url_ttl",
     "duration_sec", "transcript", "multimodal_transcript", "visual_caption",
     "visual_tags", "ocr_text", "has_audio", "embedding_source", "title",
     "tags", "embedding", "created_at", "expires_at"}

\* step 4 of get_personalized_feed: one VideoResponse per video of the page.
\* The loop body reads video.file_path; reading an attribute the document
\* class does not have raises, the except clause logs and goes on to the
\* next video, and the video is left out of the response.
video_responses(paginated_videos) ==
    SelectSeq([i \in DOMAIN paginated_videos |-> paginated_videos[i].video.id],
              LAMBDA id : "file_path" \in VideoDocumentFields)

\* steps 3 to 5 of get_personalized_feed: the page and the response
feed_response(mode, user_id, user, searched, fetched, ranked, skip, limit) ==
    LET paginated_videos == Slice(ranked, skip, limit)
        total_available == Len(ranked)
    IN  [mode |-> mode,
         user_id |-> user_id,
         n |-> user.n,
         searched |-> searched,
         fetched |-> fetched,
         ranked |-> ranked,
         skip |-> skip,
         limit |-> limit,
         page |-> [i \in DOMAIN paginated_videos |-> paginated_videos[i].video.id],
         videos |-> video_responses(paginated_videos),
         total_count |-> Len(video_responses(paginated_videos)),
         has_more |-> (skip + limit < total_available)]

\* the response together with the query it answers: the borough, the
\* window and the time of the query
asked(response, borough, since_hours, now) ==
    response @@ [borough |-> borough, since_hours |-> since_hours, now |-> now]

\* the use of rank_videos_recency where the personalized ranker belongs
rank_personalized_as_recency(scored, nows) ==
    rank_videos_recency(videos_of(scored), DefaultDecayHours, nows)

\* feed.py:87: rank_videos_personalized(video_scores, decay_hours=24.0,
\* vector_weight=0.65)
feed_rank_personalized(scored, nows) ==
    rank_videos_personalized(scored, DefaultDecayHours, DefaultVectorWeight, nows)

\* get_personalized_feed, the whole handler: get_user, the choice of the
\* ranking mode, the fetch of the candidates, the ranking, the page.  The
\* query runs at hour now, the ranker reads the clock once per candidate.
get_personalized_feed(u, borough, limit, skip, since_hours) ==
    /\ feed = NoFeed
    /\ LET user == found_or_new(u, clock)
       IN  /\ users' = put_taste(u, user)
           /\ clock' = IF found(u) THEN clock ELSE clock + 1
           /\ \E now \in (MaxHour - 1)..MaxHour :
                IF user.n > 0
                  THEN \E searched \in vector_search(borough, limit * 2, since_hours, now) :
                         IF searched = <<>>
                           THEN \E fetched \in get_feed_videos(borough, limit, skip,
                                                               since_hours, now) :
                                \E nows \in ClockReads(Len(fetched)) :
                                  feed' = asked(
                                            feed_response("recency", u, user, searched, fetched,
                                              rank_videos_recency(fetched, DefaultDecayHours, nows),
                                              skip, limit),
                                            borough, since_hours, now)
                           ELSE \E nows \in ClockReads(Len(searched)) :
                                  feed' = asked(
                                            feed_response("personalized", u, user, searched, <<>>,
                                              feed_rank_personalized(searched, nows),
                                              skip, limit),
                                            borough, since_hours, now)
                  ELSE \E fetched \in get_feed_videos(borough, limit * 2, skip,
                                                      since_hours, now) :
                       \E nows \in ClockReads(Len(fetched)) :
                         feed' = asked(
                                   feed_response("recency", u, user, <<>>, fetched,
                                     rank_videos_recency(fetched, DefaultDecayHours, nows),
                                     skip, limit),
                                   borough, since_hours, now)
    /\ UNCHANGED <<hist, last, rankvars, storevars, reqvars>>

\* a like of a stored video, folded by the DAO
fold_like(u, v) ==
    /\ feed = NoFeed
    /\ VideoDoc(v).embedding # <<>>
    /\ update_user_taste(u, VideoDoc(v).embedding)

FeedInit ==
    /\ users = <<>>
    /\ clock = 0
    /\ hist = [u \in Users |-> <<>>]
    /\ last = NoCall
    /\ RankIdle
    /\ videos \in SUBSET StoredIds
    /\ likes_unique = TRUE
    /\ RequestsIdle
    /\ feed = NoFeed

FeedNext ==
    \/ \E u \in Users, v \in StoredIds : fold_like(u, v)
    \/ \E u \in Users, borough \in Boroughs, limit \in Limits, skip \in Skips,
          since_hours \in SinceHours :
         get_personalized_feed(u, borough, limit, skip, since_hours)

SpecFeed == FeedInit /\ [][FeedNext]_vars

----------------------------------------------------------------------------
(* The rankers and the filter called on empty lists, next to GET /feed *)

EmptyInit ==
    /\ users = <<>>
    /\ clock = 0
    /\ hist = [u \in Users |-> <<>>]
    /\ last = NoCall
    /\ video_scores = <<>>
    /\ rank_call = "none"
    /\ rank_nows = <<>>
    /\ ranked_videos = <<>>
    /\ rank_config = DefaultConfig
    /\ rank_error = ""
    /\ reranked = NoRerank
    /\ \E limit \in 0..MaxSameTags :
         diversity = [ranked_videos |-> <<>>, max_same_tags |-> limit,
                      called |-> FALSE, filtered_videos |-> <<>>]
    /\ videos \in SUBSET StoredIds
    /\ likes_unique = TRUE
    /\ RequestsIdle
    /\ feed = NoFeed

EmptyNext ==
    \/ RankPersonalized
    \/ RankRecency
    \/ ApplyDiversityFilter
    \/ \E u \in Users, v \in StoredIds : fold_like(u, v)
    \/ \E u \in Users, borough \in Boroughs, limit \in Limits, skip \in Skips,
          since_hours \in SinceHours :
         get_personalized_feed(u, borough, limit, skip, since_hours)

SpecEmpty == EmptyInit /\ [][EmptyNext]_vars

----------------------------------------------------------------------------
(* Claims about the rankers (SpecRank) *)

Ranked == rank_call # "none" /\ rank_error = ""

\* the output positions at which the input candidate with id i appears
PositionsOf(i) == {k \in 1..Len(ranked_videos) : ranked_videos[k].video.id = i}

\* C8: the list either ranker returns holds every input candidate exactly
\* once, nothing else, and its final_score values are non-increasing.
C8_PermutationSortedDescending ==
    Ranked =>
        /\ Len(ranked_videos) = Len(video_scores)
        /\ \A i \in 1..Len(video_scores) :
             /\ Cardinality(PositionsOf(i)) = 1
             /\ \A k \in PositionsOf(i) :
                  ranked_videos[k].video = video_scores[i].video
        /\ \A k \in 1..Len(ranked_videos) - 1 :
             RatLe(final_score_of(ranked_videos[k + 1]),
                   final_score_of(ranked_videos[k]))

\* a ranking that had to reorder: the first input candidate is not first
C8_Witness ==
    /\ Ranked
    /\ Len(ranked_videos) = 3
    /\ ranked_videos[1].video.id = 3
    /\ RatLt(final_score_of(ranked_videos[3]), final_score_of(ranked_videos[1]))

\* C9: the sort is stable: two candidates of equal final_score appear in
\* the output of either ranker in the relative order of the input list.
C9_StableUnderTies ==
    Ranked =>
        \A k \in 1..Len(ranked_videos), l \in 1..Len(ranked_videos) :
            ( /\ k < l
              /\ RatEq(final_score_of(ranked_videos[k]),
                       final_score_of(ranked_videos[l])) )
            => ranked_videos[k].video.id < ranked_videos[l].video.id

\* two candidates tie below a third that came after them in the input
C9_Witness ==
    /\ Ranked
    /\ Len(ranked_videos) = 3
    /\ ranked_videos[1].video.id = 3
    /\ ranked_videos[2].video.id = 1
    /\ ranked_videos[3].video.id = 2
    /\ RatEq(final_score_of(ranked_videos[2]), final_score_of(ranked_videos[3]))
    /\ rank_call = "personalized"

\* the input position of the candidate at output position k
InputOf(k) == ranked_videos[k].video.id

Clamp01(x) == IF RatLt(x, Zero) THEN Zero ELSE IF RatLt(One, x) THEN One ELSE x

\* the decay of the creation time of the input candidate i, at the clock
\* value read for it
DecayOfInput(i) ==
    calculate_time_decay(video_scores[i].video.created_at,
                         rank_config.decay_hours, rank_nows[i])

\* C12: in personalized mode every returned breakdown has vector_score =
\* the candidate's raw score clamped to [0, 1], time_decay = the decay of
\* the candidate's creation time, and final_score = w * vector_score +
\* (1 - w) * time_decay for the configured vector_weight w.
C12_PersonalizedBreakdown ==
    (Ranked /\ rank_call = "personalized") =>
        \A k \in DOMAIN ranked_videos :
            LET b == ranked_videos[k].scores
                w == rank_config.vector_weight
            IN  /\ RatEq(b.vector_score, Clamp01(video_scores[InputOf(k)].score))
                /\ RatEq(b.time_decay, DecayOfInput(InputOf(k)))
                /\ RatEq(b.final_score,
                         RatAdd(RatMul(w, b.vector_score),
                                RatMul(RatSub(One, w), b.time_decay)))
                /\ b.vector_weight = w

\* a candidate with a raw score above 1 and a decay below 1, under a weight
\* that is not the default
C12_Witness ==
    /\ Ranked
    /\ rank_call = "personalized"
    /\ rank_config.vector_weight = One
    /\ \E k \in DOMAIN ranked_videos :
         /\ RatLt(One, video_scores[InputOf(k)].score)
         /\ ranked_videos[k].scores.vector_score = One
         /\ RatLt(ranked_videos[k].scores.time_decay, One)
         /\ ranked_videos[k].scores.final_score = One

\* C13: every breakdown rank_videos_recency returns has vector_score 0,
\* vector_weight 0, time_weight 1 and final_score equal to the time_decay
\* of its candidate.
C13_RecencyPurity ==
    (Ranked /\ rank_call = "recency") =>
        \A k \in DOMAIN ranked_videos :
            LET b == ranked_videos[k].scores
            IN  /\ b.vector_score = Zero
                /\ b.vector_weight = Zero
                /\ b.time_weight = One
                /\ RatEq(b.time_decay, DecayOfInput(InputOf(k)))
                /\ RatEq(b.final_score, b.time_decay)

\* a recency ranking of three candidates of which one has decayed
C13_Witness ==
    /\ Ranked
    /\ rank_call = "recency"
    /\ Len(ranked_videos) = 3
    /\ RatLt(Zero, final_score_of(ranked_videos[3]))
    /\ RatLt(final_score_of(ranked_videos[3]), One)

InUnitInterval(x) == RatLe(Zero, x) /\ RatLe(x, One)

\* C14: with a positive half-life and a vector_weight in [0, 1], either
\* ranker returns, for any raw scores and any creation times, breakdowns
\* whose vector_score, time_decay and final_score lie in [0, 1]; a creation
\* time in the future gives time_decay exactly 1.
C14_ScoresInUnitInterval ==
    rank_call # "none" =>
        /\ rank_error = ""
        /\ Len(ranked_videos) = Len(video_scores)
        /\ \A k \in DOMAIN ranked_videos :
             LET b == ranked_videos[k].scores
             IN  /\ InUnitInterval(b.vector_score)
                 /\ InUnitInterval(b.time_decay)
                 /\ InUnitInterval(b.final_score)
                 /\ video_scores[InputOf(k)].video.created_at > rank_nows[InputOf(k)]
                        => b.time_decay = One

\* the same bounds for the calls that return
C14_InUnitIntervalWhenReturned ==
    Ranked =>
        \A k \in DOMAIN ranked_videos :
            LET b == ranked_videos[k].scores
            IN  /\ InUnitInterval(b.vector_score)
                /\ InUnitInterval(b.time_decay)
                /\ InUnitInterval(b.final_score)
                /\ video_scores[InputOf(k)].video.created_at > rank_nows[InputOf(k)]
                       => b.time_decay = One

\* C15: in one rank_videos_recency call, of two candidates the one with the
\* later created_at has a time_decay >= that of the other, and no candidate
\* precedes in the output one that has a strictly later created_at and a
\* different score.
C15_RecencyMonotone ==
    (Ranked /\ rank_call = "recency") =>
        \A k \in DOMAIN ranked_videos, l \in DOMAIN ranked_videos :
            ranked_videos[k].video.created_at > ranked_videos[l].video.created_at
            => /\ RatLe(ranked_videos[l].scores.time_decay,
                        ranked_videos[k].scores.time_decay)
               /\ ~ ( /\ l < k
                      /\ ~RatEq(final_score_of(ranked_videos[l]),
                                final_score_of(ranked_videos[k])) )

\* the same for two candidates the clock read the same value for
C15_MonotoneAtOneNow ==
    (Ranked /\ rank_call = "recency") =>
        \A k \in DOMAIN ranked_videos, l \in DOMAIN ranked_videos :
            ( /\ ranked_videos[k].video.created_at > ranked_videos[l].video.created_at
              /\ rank_nows[InputOf(k)] = rank_nows[InputOf(l)] )
            => /\ RatLe(ranked_videos[l].scores.time_decay,
                        ranked_videos[k].scores.time_decay)
               /\ ~ ( /\ l < k
                      /\ ~RatEq(final_score_of(ranked_videos[l]),
                                final_score_of(ranked_videos[k])) )

Reranked == reranked # NoRerank /\ Len(video_scores) > 0

\* the output position of the candidate with id i in a ranked list
PositionIn(list, i) == CHOOSE k \in DOMAIN list : list[k].video.id = i

\* C16 (SpecPermuted): within one ranking invocation the order of the input
\* list does not affect the sorted output: the ranker, called on a
\* permutation of the same candidates, puts every two candidates whose
\* scores differ in the same relative order, every candidate being scored
\* against the same 'now'.
C16_OrderIndependent ==
    Reranked =>
        \A a \in DOMAIN video_scores, b \in DOMAIN video_scores :
            LET k1 == PositionIn(ranked_videos, a)
                l1 == PositionIn(ranked_videos, b)
                k2 == PositionIn(reranked.ranked_videos, a)
                l2 == PositionIn(reranked.ranked_videos, b)
            IN  ( /\ ~RatEq(final_score_of(ranked_videos[k1]),
                            final_score_of(ranked_videos[l1]))
                  /\ ~RatEq(final_score_of(reranked.ranked_videos[k2]),
                            final_score_of(reranked.ranked_videos[l2])) )
                => (k1 < l1 <=> k2 < l2)

\* the same for the calls in which every read of the clock returned the
\* same value
C16_OrderIndependentAtOneNow ==
    (Reranked /\ \A i \in DOMAIN rank_nows : rank_nows[i] = rank_nows[1]) =>
        \A a \in DOMAIN video_scores, b \in DOMAIN video_scores :
            LET k1 == PositionIn(ranked_videos, a)
                l1 == PositionIn(ranked_videos, b)
                k2 == PositionIn(reranked.ranked_videos, a)
                l2 == PositionIn(reranked.ranked_videos, b)
            IN  ( /\ ~RatEq(final_score_of(ranked_videos[k1]),
                            final_score_of(ranked_videos[l1]))
                  /\ ~RatEq(final_score_of(reranked.ranked_videos[k2]),
                            final_score_of(reranked.ranked_videos[l2])) )
                => (k1 < l1 <=> k2 < l2)

----------------------------------------------------------------------------
(* Claims about the configuration of the rankers (SpecConfig) *)

Called == rank_call # "none"

\* C22: a ranking called with a half-life <= 0 fails with
\* InvalidConfigError and produces no score and no ranked feed.
C22_InvalidHalfLifeRejected ==
    (Called /\ rank_config.decay_hours <= 0) =>
        /\ rank_error = "InvalidConfigError"
        /\ ranked_videos = <<>>

\* C23: a personalized ranking called with a vector_weight outside [0, 1]
\* fails with InvalidWeightError instead of returning scores.
C23_InvalidWeightRejected ==
    ( /\ Called
      /\ rank_call = "personalized"
      /\ ~InUnitInterval(rank_config.vector_weight) )
    => /\ rank_error = "InvalidWeightError"
       /\ ranked_videos = <<>>

\* C24: in every breakdown either ranker returns, for any vector_weight
\* passed, vector_weight + time_weight = 1, and final_score is computed
\* with the two weights the breakdown reports.
C24_WeightSum ==
    Ranked =>
        \A k \in DOMAIN ranked_videos :
            LET b == ranked_videos[k].scores
            IN  /\ RatEq(RatAdd(b.vector_weight, b.time_weight), One)
                /\ RatEq(b.final_score,
                         RatAdd(RatMul(b.vector_weight, b.vector_score),
                                RatMul(b.time_weight, b.time_decay)))
                /\ rank_call = "personalized" =>
                      b.vector_weight = rank_config.vector_weight

\* a personalized ranking under a weight above 1: the time weight is negative
C24_Witness ==
    /\ Ranked
    /\ rank_call = "personalized"
    /\ rank_config.vector_weight = <<3, 2>>
    /\ Len(ranked_videos) = 2
    /\ ranked_videos[1].scores.time_weight = <<-1, 2>>
    /\ RatLt(Zero, ranked_videos[1].scores.vector_score)

----------------------------------------------------------------------------
(* Claims about apply_diversity_filter (SpecDiversity) *)

Filtered == diversity.filtered_videos

\* the positions of a list whose video has the tag
WithTag(list, tag) == {k \in DOMAIN list : tag \in TagSet(list[k].video.tags)}

\* C17: in the list apply_diversity_filter returns no tag occurs in more
\* than max_same_tags items, each item counting each of its tags once, for
\* every ranked input and every max_same_tags >= 0.
C17_DiversityCap ==
    diversity.called =>
        \A tag \in Tags :
            Cardinality(WithTag(Filtered, tag)) <= diversity.max_same_tags

\* four videos listing one tag (one of them twice) under a cap of 2
C17_Witness ==
    /\ diversity.called
    /\ diversity.max_same_tags = 2
    /\ Len(diversity.ranked_videos) = 4
    /\ Cardinality(WithTag(diversity.ranked_videos, "brooklyn")) = 4
    /\ diversity.ranked_videos[1].video.tags = <<"brooklyn", "brooklyn">>
    /\ Len(Filtered) = 2

\* C18: the output of apply_diversity_filter is a subsequence of its
\* input: every output item is the input item of its id, unaltered, no item
\* occurs twice, and the survivors are in the order of the input.
C18_Subsequence ==
    diversity.called =>
        /\ \A k \in DOMAIN Filtered :
             /\ Filtered[k].video.id \in DOMAIN diversity.ranked_videos
             /\ Filtered[k] = diversity.ranked_videos[Filtered[k].video.id]
        /\ \A k \in DOMAIN Filtered, l \in DOMAIN Filtered :
             k < l => Filtered[k].video.id < Filtered[l].video.id

\* a filtering that dropped an item between two survivors
C18_Witness ==
    /\ diversity.called
    /\ Len(diversity.ranked_videos) = 4
    /\ Len(Filtered) = 3
    /\ Filtered[1].video.id = 1
    /\ Filtered[2].video.id = 2
    /\ Filtered[3].video.id = 4

\* the ids of the survivors
Survivors == {Filtered[k].video.id : k \in DOMAIN Filtered}

\* the greedy rule: each tag of the item at position i occurs in fewer than
\* max_same_tags of the survivors at positions before i
GreedyAdmits(i) ==
    \A tag \in TagSet(diversity.ranked_videos[i].video.tags) :
        Cardinality({j \in Survivors : /\ j < i
                                       /\ j \in WithTag(diversity.ranked_videos, tag)})
            < diversity.max_same_tags

\* C19: apply_diversity_filter computes the greedy selection for every
\* input length: the item at position i survives if and only if each of its
\* tags occurs in fewer than max_same_tags of the survivors before i; so an
\* item without tags always survives.
C19_GreedySelection ==
    diversity.called =>
        \A i \in DOMAIN diversity.ranked_videos :
            /\ i \in Survivors <=> GreedyAdmits(i)
            /\ diversity.ranked_videos[i].video.tags = <<>> => i \in Survivors

\* the same for a cap of at least 1
C19_GreedyUnderPositiveCap ==
    (diversity.called /\ diversity.max_same_tags >= 1) =>
        \A i \in DOMAIN diversity.ranked_videos :
            /\ i \in Survivors <=> GreedyAdmits(i)
            /\ diversity.ranked_videos[i].video.tags = <<>> => i \in Survivors

----------------------------------------------------------------------------
(* Claims about the DAO called directly (SpecTaste) *)

\* the vectors of h have one common non-zero length
CommonLength(h) ==
    /\ h # <<>>
    /\ Len(h[1]) > 0
    /\ \A j \in 1..Len(h) : Len(h[j]) = Len(h[1])

RECURSIVE SumAt(_, _, _)
SumAt(h, i, k) == IF k = 0 THEN 0 ELSE h[k][i] + SumAt(h, i, k - 1)

\* the component-wise arithmetic mean of the vectors of h
MeanOf(h) == [i \in 1..Len(h[1]) |-> Rat(SumAt(h, i, Len(h)), Len(h))]

\* C1: after update_user_taste has folded V1..Vk of one common non-zero
\* length into an initially empty profile, one call after the other, the
\* stored embedding is the component-wise arithmetic mean of V1..Vk and the
\* stored n is k; for k = 1 the embedding is exactly V1 and n = 1.
C1_OnlineMean ==
    \A u \in Users :
        CommonLength(hist[u]) =>
            /\ found(u)
            /\ users[u].n = Len(hist[u])
            /\ users[u].embedding = MeanOf(hist[u])
            /\ Len(hist[u]) = 1 => users[u].embedding = FloatVec(hist[u][1])

C1_Witness ==
    \E u \in Users :
        /\ CommonLength(hist[u])
        /\ Len(hist[u]) = 3
        /\ Len(hist[u][1]) = 2
        /\ hist[u][1] # hist[u][2]
        /\ hist[u][2] # hist[u][3]
        /\ users[u].n = 3

\* C5: in every state of a stored profile, n = 0 if and only if the
\* embedding is empty, whatever vectors the updates were given.
C5_CountZeroIffEmpty ==
    \A u \in DOMAIN users : users[u].n = 0 <=> users[u].embedding = <<>>

\* C6: update_user_taste on a profile with n > 0 and a vector whose length
\* differs from that of the stored embedding is rejected with a
\* DimensionMismatchError and leaves the stored profile as it was.
C6_MismatchRejected ==
    ( /\ last.op = "update_user_taste"
      /\ last.pre.n > 0
      /\ Len(last.vector) # Len(last.pre.embedding) )
    => /\ last.result = "DimensionMismatchError"
       /\ users[last.user] = last.pre

----------------------------------------------------------------------------
(* Claims about the like and unlike handlers (Spec) *)

Done(p) == proc[p].pc = "done"

Liked(p) ==
    /\ Done(p)
    /\ proc[p].op = "like"
    /\ proc[p].resp = [status |-> 200, message |-> "Video liked successfully"]

\* C2: the running mean never drops a concurrent like: once two POST /like
\* of one user for two different, not yet liked videos with embeddings have
\* both answered success, in whatever interleaving, the count has grown by
\* 2 and the embedding is the mean that includes both vectors.  (Stated for
\* the first two requests of a behaviour, which start from n = 0.)
C2_NoLostLike ==
    \A p \in Procs, q \in Procs :
        ( /\ started = 2
          /\ p # q
          /\ Liked(p) /\ Liked(q)
          /\ proc[p].user = proc[q].user
          /\ proc[p].video_id # proc[q].video_id
          /\ proc[p].embedding # <<>> /\ proc[q].embedding # <<>> )
        => /\ users[proc[p].user].n = 2
           /\ users[proc[p].user].embedding =
                MeanOf(<<VideoDoc(proc[p].video_id).embedding,
                         VideoDoc(proc[q].video_id).embedding>>)

\* C3: a POST /like issued for a pair whose like is already in the ledger
\* (an earlier POST /like completed, no unlike since; requests one after the
\* other) answers "Video already liked" and leaves the user's taste
\* embedding and count exactly as they were.
C3_RelikeNotCounted ==
    [][ \A p \in Procs :
          ( /\ sequential'
            /\ ~Done(p)
            /\ proc'[p].pc = "done"
            /\ proc'[p].op = "like"
            /\ proc'[p].pre_liked )
          => /\ proc'[p].resp = [status |-> 200, message |-> "Video already liked"]
             /\ users' = proc'[p].pre_users ]_vars

C3_Witness ==
    \E p \in Procs :
        /\ sequential
        /\ Done(p)
        /\ proc[p].op = "like"
        /\ proc[p].pre_liked
        /\ found(proc[p].user)
        /\ users[proc[p].user].n = 1
        /\ proc[p].embedding # <<>>

\* C4: for requests issued one after the other, each video is folded into
\* the running mean at most once: n never exceeds the number of distinct
\* videos the user has liked.
C4_OnceDistinctLike ==
    sequential =>
        \A u \in DOMAIN users : users[u].n <= Cardinality(ever_liked[u])

\* C7: no step of DELETE /like changes db.users (embedding, n, updated_at of
\* every profile stay as they are, and no document is created); the only
\* change it may make to the ledger is one document less for its pair.
C7_UnlikeFrame ==
    [][ \A p \in Procs :
          (proc'[p].op = "unlike" /\ proc'[p] # proc[p]) =>
              /\ users' = users
              /\ \A u \in Users, v \in StoredIds :
                   \/ likes'[u, v] = likes[u, v]
                   \/ /\ u = proc[p].user
                      /\ v = proc[p].video_id
                      /\ likes'[u, v] = likes[u, v] - 1 ]_vars

\* an unlike removed a like that had been folded into the taste
C7_Witness ==
    \E p \in Procs :
        /\ Done(p)
        /\ proc[p].op = "unlike"
        /\ proc[p].resp.message = "Video unliked successfully"
        /\ found(proc[p].user)
        /\ users[proc[p].user].n = 1
        /\ likes[proc[p].user, proc[p].video_id] = 0

\* the step with which handler p finishes a request of the kind op
Completes(p, op) == ~Done(p) /\ proc'[p].pc = "done" /\ proc'[p].op = op

\* C21: get_user for an id that is not in the store returns a profile with
\* n = 0 and an empty embedding and persists one document for the id; for a
\* stored id it returns the stored profile and modifies nothing; and two
\* concurrent requests for a never-seen user both succeed.  (Stated for the
\* taste-profile endpoint, which calls get_user and nothing else.)
C21_ReadOrCreate ==
    [][ \A p \in Procs :
          Completes(p, "taste") =>
              LET u == proc'[p].user
                  pre == proc'[p].pre_users
              IN  /\ proc'[p].resp.status = 200
                  /\ u \in DOMAIN users'
                  /\ (sequential' /\ u \notin DOMAIN pre) =>
                        /\ proc'[p].taste.n = 0
                        /\ proc'[p].taste.embedding = <<>>
                        /\ DOMAIN users' = DOMAIN pre \cup {u}
                        /\ users'[u] = proc'[p].taste
                  /\ (sequential' /\ u \in DOMAIN pre) =>
                        /\ proc'[p].taste = pre[u]
                        /\ users' = pre ]_vars

\* the same for requests that run one after the other
C21_SequentialReadOrCreate ==
    [][ \A p \in Procs :
          (Completes(p, "taste") /\ sequential') =>
              LET u == proc'[p].user
                  pre == proc'[p].pre_users
              IN  /\ proc'[p].resp.status = 200
                  /\ u \in DOMAIN users'
                  /\ u \notin DOMAIN pre =>
                        /\ proc'[p].taste.n = 0
                        /\ proc'[p].taste.embedding = <<>>
                        /\ DOMAIN users' = DOMAIN pre \cup {u}
                        /\ users'[u] = proc'[p].taste
                  /\ u \in DOMAIN pre =>
                        /\ proc'[p].taste = pre[u]
                        /\ users' = pre ]_vars

\* C28: POST /like is all-or-nothing on failure: a request that ends with
\* a 500 has created no like record (and has written no taste), so that a
\* retry still folds the video's embedding into the running mean.
C28_LikeAllOrNothing ==
    \A p \in Procs :
        (Done(p) /\ proc[p].op = "like" /\ proc[p].resp.status = 500)
        => ~proc[p].created_like

\* C25: two concurrent POST /like for one (user, video) pair that was not
\* liked before, the video having an embedding: once both have finished, in
\* whatever interleaving, the embedding has been folded once (n has grown
\* by 1) and the ledger holds one like record of the pair.  (Stated for the
\* first two requests of a behaviour, which start from n = 0.)
C25_RacingLikesFoldedOnce ==
    \A p \in Procs, q \in Procs :
        ( /\ started = 2
          /\ p # q
          /\ ~sequential
          /\ Done(p) /\ Done(q)
          /\ proc[p].op = "like" /\ proc[q].op = "like"
          /\ proc[p].user = proc[q].user
          /\ proc[p].video_id = proc[q].video_id
          /\ proc[p].embedding # <<>> )
        => /\ found(proc[p].user)
           /\ users[proc[p].user].n = 1
           /\ likes[proc[p].user, proc[p].video_id] = 1

\* C26: the stored count n of a user never decreases: every write to a
\* profile stores a count >= the count stored before it, in every
\* interleaving of likes, unlikes and taste-profile reads.
C26_CountNeverDecreases ==
    [][ \A u \in DOMAIN users :
          u \in DOMAIN users' /\ users'[u].n >= users[u].n ]_vars

\* C29: POST /like for an id that resolves to no stored video answers 404
\* video_not_found, and no step of the request changes the ledger or
\* db.users: no like record, no user document, no taste update.
C29_UnknownVideoNoEffect ==
    [][ \A p \in Procs :
          ( /\ proc'[p] # proc[p]
            /\ proc'[p].op = "like"
            /\ proc'[p].video_id \notin videos )
          => /\ users' = users
             /\ likes' = likes
             /\ proc'[p].pc = "done" =>
                   proc'[p].resp = [status |-> 404, message |-> "video_not_found"] ]_vars

\* the 404 given to a user who has a profile and a like in the ledger
C29_Witness ==
    \E p \in Procs :
        /\ Done(p)
        /\ proc[p].op = "like"
        /\ proc[p].video_id \notin videos
        /\ proc[p].resp.status = 404
        /\ found(proc[p].user)
        /\ users[proc[p].user].n = 1

\* C30: POST /like for a stored, not yet liked video whose embedding is
\* empty records the like and answers success, and leaves db.users as it
\* was (requests one after the other); and in every interleaving no step of
\* a like of such a video writes db.users: the taste updater is not invoked.
C30_EmptyEmbeddingLike ==
    [][ \A p \in Procs :
          ( /\ proc'[p] # proc[p]
            /\ proc'[p].op = "like"
            /\ proc'[p].video_id \in videos
            /\ VideoDoc(proc'[p].video_id).embedding = <<>> )
          => /\ users' = users
             /\ proc'[p].pc \notin {"get_user", "insert_user", "update_one"}
             /\ (Completes(p, "like") /\ sequential' /\ ~proc'[p].pre_liked) =>
                   /\ proc'[p].resp = [status |-> 200,
                                       message |-> "Video liked successfully"]
                   /\ likes'[proc'[p].user, proc'[p].video_id] = 1
                   /\ users' = proc'[p].pre_users ]_vars

\* the like of the video without embedding by a user with a taste profile
C30_Witness ==
    \E p \in Procs :
        /\ sequential
        /\ Done(p)
        /\ proc[p].op = "like"
        /\ proc[p].video_id = "v0"
        /\ ~proc[p].pre_liked
        /\ proc[p].resp.message = "Video liked successfully"
        /\ likes[proc[p].user, "v0"] = 1
        /\ found(proc[p].user)
        /\ users[proc[p].user].n = 1
        /\ users = proc[p].pre_users

----------------------------------------------------------------------------
(* Claims about GET /feed (SpecFeed) *)

IdsOf(list) == {list[i].id : i \in DOMAIN list}
RankedIds == {feed.ranked[k].video.id : k \in DOMAIN feed.ranked}

\* C10: GET /feed ranks in personalized mode exactly when the user's n > 0
\* and the vector search returned at least one candidate (it then ranks the
\* search result with the configured vector weight); otherwise (n = 0, or
\* n > 0 and an empty search result) it fetches a recency-ordered list and
\* ranks that in recency mode: every breakdown has vector_score 0 and
\* vector_weight 0.
C10_ModeSelection ==
    feed # NoFeed =>
        /\ feed.n = users[feed.user_id].n
        /\ IF feed.n > 0 /\ feed.searched # <<>>
             THEN /\ feed.mode = "personalized"
                  /\ RankedIds = IdsOf(videos_of(feed.searched))
                  /\ Len(feed.ranked) = Len(feed.searched)
                  /\ \A k \in DOMAIN feed.ranked :
                       feed.ranked[k].scores.vector_weight = DefaultVectorWeight
             ELSE /\ feed.mode = "recency"
                  /\ RankedIds = IdsOf(feed.fetched)
                  /\ Len(feed.ranked) = Len(feed.fetched)
                  /\ \A i \in DOMAIN feed.fetched, j \in DOMAIN feed.fetched :
                       i < j => feed.fetched[i].created_at >= feed.fetched[j].created_at
                  /\ \A k \in DOMAIN feed.ranked :
                       /\ feed.ranked[k].scores.vector_score = Zero
                       /\ feed.ranked[k].scores.vector_weight = Zero

\* the fallback: a user with likes, an empty search result, a recency feed
C10_Witness ==
    /\ feed # NoFeed
    /\ feed.n > 0
    /\ feed.searched = <<>>
    /\ Len(feed.ranked) = 2
    /\ feed.mode = "recency"

\* the personalized feed of a user with likes
C10_WitnessPersonalized ==
    /\ feed # NoFeed
    /\ feed.n = 2
    /\ Len(feed.searched) = 2
    /\ feed.mode = "personalized"

Max(a, b) == IF a >= b THEN a ELSE b

\* C11: the page GET /feed returns holds exactly the items of the ranked
\* list (of length L) at positions skip .. skip+limit-1 that exist, that is
\* min(limit, max(0, L - skip)) items in ranked order, and has_more is true
\* exactly when skip + limit < L.
C11_Pagination ==
    feed # NoFeed =>
        LET L == Len(feed.ranked)
            count == Min(feed.limit, Max(0, L - feed.skip))
        IN  /\ Len(feed.videos) = count
            /\ feed.total_count = count
            /\ \A k \in 1..count :
                 feed.videos[k] = feed.ranked[feed.skip + k].video.id
            /\ feed.has_more <=> (feed.skip + feed.limit < L)

\* the same for the slice ranked_videos[skip:skip + limit] and has_more
\* alone, before the responses are built
C11_SliceAndHasMore ==
    feed # NoFeed =>
        LET L == Len(feed.ranked)
            count == Min(feed.limit, Max(0, L - feed.skip))
        IN  /\ Len(feed.page) = count
            /\ \A k \in 1..count :
                 feed.page[k] = feed.ranked[feed.skip + k].video.id
            /\ feed.has_more <=> (feed.skip + feed.limit < L)

\* C20 (SpecEmpty): empty input is not an error: either ranker and
\* apply_diversity_filter, called with an empty list, return an empty list
\* and raise nothing, and GET /feed that finds no candidate answers with an
\* empty video list and has_more false.
C20_EmptyInput ==
    /\ (rank_call # "none" /\ video_scores = <<>>)
          => (rank_error = "" /\ ranked_videos = <<>>)
    /\ (diversity.called /\ diversity.ranked_videos = <<>>)
          => diversity.filtered_videos = <<>>
    /\ (feed # NoFeed /\ feed.searched = <<>> /\ feed.fetched = <<>>)
          => /\ feed.ranked = <<>>
             /\ feed.videos = <<>>
             /\ feed.total_count = 0
             /\ ~feed.has_more

\* a ranker and the filter have run on empty lists, and a user with likes
\* has asked for the feed of a borough without videos
C20_Witness ==
    /\ rank_call # "none"
    /\ video_scores = <<>>
    /\ diversity.called
    /\ diversity.ranked_videos = <<>>
    /\ feed # NoFeed
    /\ feed.n > 0
    /\ feed.searched = <<>>
    /\ feed.fetched = <<>>
    /\ videos # {}

\* the videos of the borough of the last query inside its window
Window == InWindow(feed.borough, feed.since_hours, feed.now)

\* C27: with an unchanged store holding N videos of the borough inside the
\* window, GET /feed for a user with an empty taste profile returns, for
\* any (skip, limit), the videos at the recency positions skip ..
\* skip+limit-1 of those N (so that successive pages return each of the N
\* once), and has_more is false only on the page that reaches the last one.
C27_PagesCoverTheStore ==
    (feed # NoFeed /\ feed.n = 0) =>
        /\ \E s \in RecencyOrders(Window) :
             feed.videos = Slice(s, feed.skip, feed.limit)
        /\ feed.has_more <=> (feed.skip + feed.limit < Cardinality(Window))

\* the same for the page before the responses are built; this is violated
\* as well: skip is applied by the query and again by the slice, and
\* has_more compares with the number of fetched videos
C27_PageBeforeResponses ==
    (feed # NoFeed /\ feed.n = 0) =>
        /\ \E s \in RecencyOrders(Window) :
             feed.page = Slice(s, feed.skip, feed.limit)
        /\ feed.has_more <=> (feed.skip + feed.limit < Cardinality(Window))

====
